---- MODULE Spec2Model ----
(***************************************************************************)
(* A model of scripts/train.py of sns-lstm: logger(hparams, args) and the  *)
(* experiment / epoch loop of main().  The collaborators whose code is not *)
(* in scripts/train.py (utils.TrajectoriesDataset and the coordinate       *)
(* helper) are modelled from the written specification.                    *)
(***************************************************************************)
EXTENDS Integers, Sequences, FiniteSets, TLC

\* ------------------------------------------------------------------ bounds
MaxExperiments == 2
MaxEpochs == 2
MaxSeq == 2
MaxFrames == 3
MaxCoord == 2

\* ------------------------------------------------------------------ values
None == "None"

\* str.upper() on the level names the model draws
Upper(s) ==
    CASE s = "debug" -> "DEBUG"
      [] s = "Debug" -> "DEBUG"
      [] s = "DEBUG" -> "DEBUG"
      [] s = "warning" -> "WARNING"
      [] s = "Warning" -> "WARNING"
      [] s = "WARNING" -> "WARNING"
      [] s = "info" -> "INFO"
      [] s = "INFO" -> "INFO"
      [] OTHER -> s

\* the command line: --logLevel and --logFolder are optional (default None)
ArgsSet ==
    [logLevel : {None, "debug"}, logFolder : {None, "cli_logs"}]

\* the parameters utils.YParams(experiment) can load
HParamsSet ==
    [logFolder : {None, "hp_logs"},
     logLevel : {None, "Warning"},
     poolingModule : {"list", "social", "occupancy", "other"},
     modelFolder : {None, "models"},
     epochs : 0..MaxEpochs]

NoHParams ==
    [logFolder |-> None, logLevel |-> None, poolingModule |-> None,
     modelFolder |-> None, epochs |-> 0]

VARIABLES
    args,            \* parsed command line
    nExperiments,    \* len(experiments)
    experiment,      \* 1-based index of the experiment being processed
    hparams,         \* parameters of the current experiment
    handlers,        \* logging.getLogger().handlers
    level,           \* level of the root logger
    num_sequences,   \* [train, val]: train_loader / val_loader .num_sequences
    loaders,         \* TRUE once both DataLoaders of the experiment are built
    dataset,         \* state of utils.TrajectoriesDataset
    pooling_module,  \* local pooling_module of main
    model,           \* pooling module the SocialModel was constructed with
    save_model,      \* local save_model of main: "unbound" or "True"
    saver,           \* experiment that bound saver / model_path / checkpoints_path
    epoch,           \* epoch + 1 of the running epoch
    sequence,        \* steps done in the running for loop
    weights,         \* number of trainOp executions since the initializer
    saves,           \* saver.save calls of the current experiment
    events,          \* session operations of the running epoch, in order
    calls,           \* per-epoch count of handle resets and advances
    pc,              \* position in main
    error,           \* exception that ended main, or None
    positions,       \* coordinate helper: Position Tensor of one agent slot
    mask,            \* coordinate helper: Presence Mask of that slot
    relative,        \* coordinate helper: result of toRelative
    absolute,        \* coordinate helper: result of toAbsolute
    hpc              \* coordinate helper: position

mainVars ==
    <<args, nExperiments, experiment, hparams, handlers, level, loaders,
      pooling_module, model, save_model, saver, epoch, sequence, weights,
      saves, events, calls, pc, error>>
dataVars == <<num_sequences, dataset>>
coordVars == <<positions, mask, relative, absolute, hpc>>
vars == <<mainVars, dataVars, coordVars>>

\* ------------------------------------------------- utils.TrajectoriesDataset
\* Two iteration handles over the windows 1..n of the train and validation
\* loaders.  train / val hold the windows a handle delivered since its reset.
NewDataset ==
    [active |-> None, train |-> <<>>, val |-> <<>>, raised |-> FALSE]

\* dataset.init_train: the training handle restarts at its first window
init_train(ds) ==
    [ds EXCEPT !.active = "train", !.train = <<>>]

\* one iterator shared by both datasets: its reset loses the other position
init_val_shared(ds) ==
    [ds EXCEPT !.active = "val", !.val = <<>>, !.train = <<>>]

\* dataset.init_val: the validation handle restarts at its first window
init_val(ds) ==
    [ds EXCEPT !.active = "val", !.val = <<>>]

\* one advance of the handle initialised last; EndOfEpoch past the last window
get_next(ds, n) ==
    CASE ds.active = "train" ->
           IF Len(ds.train) < n.train
           THEN [ds EXCEPT !.train = Append(@, Len(@) + 1)]
           ELSE [ds EXCEPT !.raised = TRUE]
      [] ds.active = "val" ->
           IF Len(ds.val) < n.val
           THEN [ds EXCEPT !.val = Append(@, Len(@) + 1)]
           ELSE [ds EXCEPT !.raised = TRUE]
      [] OTHER -> [ds EXCEPT !.raised = TRUE]

NoCalls == [init_train |-> 0, init_val |-> 0, next_train |-> 0, next_val |-> 0]

\* the handle an advance of ds acts on, counted in calls
CountNext(c, ds) ==
    CASE ds.active = "train" -> [c EXCEPT !.next_train = @ + 1]
      [] ds.active = "val" -> [c EXCEPT !.next_val = @ + 1]
      [] OTHER -> c

\* ------------------------------------------------------------------ logger
\* lines 25-29: the folder of the FileHandler
LogFolder(hp, a) ==
    IF a.logFolder # None THEN a.logFolder
    ELSE IF hp.logFolder # None THEN hp.logFolder
    ELSE None

\* attributes a loaded hparams object has
HParamsAttributes ==
    {"logFolder", "logLevel", "poolingModule", "modelFolder", "epochs"}

\* lines 36-40: the attribute read by the elif, when it is evaluated
LevelAttributeRead == "logLeve"

\* line 39 raises AttributeError when it reads an attribute hparams lacks
LoggerRaises(hp, a) ==
    a.logLevel = None /\ LevelAttributeRead \notin HParamsAttributes

\* lines 20, 36-40: the level handed to setLevel
LoggerLevel(hp, a) ==
    IF a.logLevel # None THEN Upper(a.logLevel)
    ELSE IF hp.logLevel # None THEN Upper(hp.logLevel)
    ELSE "INFO"

\* lines 45-57: every earlier handler is removed, then the new ones are added
LoggerHandlers(old, hp, a, who) ==
    LET kept == SelectSeq(old, LAMBDA h : FALSE)
        file == IF LogFolder(hp, a) # None
                THEN <<[kind |-> "FileHandler", folder |-> LogFolder(hp, a),
                        by |-> who]>>
                ELSE <<>>
        stderr == <<[kind |-> "StreamHandler", folder |-> None, by |-> who]>>
    IN  kept \o file \o stderr

\* -------------------------------------------------------------------- main
\* lines 145-161: the pooling module chosen from hparams.poolingModule
SelectPooling(pm) ==
    CASE pm = "list" -> "CombinedPooling.pooling"
      [] pm = "social" -> "SocialPooling.pooling"
      [] pm = "occupancy" -> "OccupancyPooling.pooling"
      [] OTHER -> None

\* an off-by-one loop bound
TrainingStepsOneMore == num_sequences.train + 1

\* line 210: range(train_loader.num_sequences)
TrainingSteps == num_sequences.train

\* line 232: range(val_loader.num_sequences)
ValidationSteps == num_sequences.val

\* line 212: what a training step runs
TrainingFetches == {"loss", "trainOp"}

\* a validation step that also runs the train op
ValidationFetchesTraining == {"loss", "trainOp"}

\* line 233: what a validation step runs
ValidationFetches == {"loss"}

\* sess.run(fetches): the loss reads one window, trainOp updates the weights
RunWeights(fetches, w) == IF "trainOp" \in fetches THEN w + 1 ELSE w

Raise(e) == pc' = "crashed" /\ error' = e

MainInit ==
    /\ args \in ArgsSet
    /\ nExperiments \in 0..MaxExperiments
    /\ experiment = 0
    /\ hparams = NoHParams
    /\ handlers = <<>>
    /\ level = "WARNING"
    /\ num_sequences = [train |-> 0, val |-> 0]
    /\ loaders = FALSE
    /\ dataset = NewDataset
    /\ pooling_module = None
    /\ model = "unbound"
    /\ save_model = "unbound"
    /\ saver = 0
    /\ epoch = 0
    /\ sequence = 0
    /\ weights = 0
    /\ saves = <<>>
    /\ events = <<>>
    /\ calls = NoCalls
    /\ pc = "experiments"
    /\ error = None

CoordIdle ==
    /\ positions = <<>>
    /\ mask = <<>>
    /\ relative = <<>>
    /\ absolute = <<>>

Init == MainInit /\ CoordIdle /\ hpc = "idle"

\* lines 96-98: the next experiment's parameters are loaded
LoadParams ==
    /\ pc = "experiments"
    /\ experiment < nExperiments
    /\ experiment' = experiment + 1
    /\ hparams' \in HParamsSet
    /\ loaders' = FALSE
    /\ model' = "unbound"
    /\ saves' = <<>>
    /\ events' = <<>>
    /\ calls' = NoCalls
    /\ pc' = "logger"
    /\ UNCHANGED <<args, nExperiments, handlers, level, pooling_module,
                   save_model, saver, epoch, sequence, weights, error>>
    /\ UNCHANGED <<dataVars, coordVars>>

\* line 96: no experiment is left, main returns
MainReturns ==
    /\ pc = "experiments"
    /\ experiment >= nExperiments
    /\ pc' = "done"
    /\ UNCHANGED <<args, nExperiments, experiment, hparams, handlers, level,
                   loaders, pooling_module, model, save_model, saver, epoch,
                   sequence, weights, saves, events, calls, error>>
    /\ UNCHANGED <<dataVars, coordVars>>

\* line 100, lines 17-60: logger(hparams, args)
Logger ==
    /\ pc = "logger"
    /\ IF LoggerRaises(hparams, args)
       THEN /\ Raise("AttributeError")
            /\ UNCHANGED <<handlers, level>>
       ELSE /\ handlers' = LoggerHandlers(handlers, hparams, args, experiment)
            /\ level' = LoggerLevel(hparams, args)
            /\ pc' = "loaders"
            /\ UNCHANGED error
    /\ UNCHANGED <<args, nExperiments, experiment, hparams, loaders,
                   pooling_module, model, save_model, saver, epoch, sequence,
                   weights, saves, events, calls>>
    /\ UNCHANGED <<dataVars, coordVars>>

\* lines 113-132: both DataLoaders window their datasets
BuildLoaders ==
    /\ pc = "loaders"
    /\ \E nt \in 0..MaxSeq, nv \in 0..MaxSeq :
          num_sequences' = [train |-> nt, val |-> nv]
    /\ loaders' = TRUE
    /\ pc' = "dataset"
    /\ UNCHANGED <<args, nExperiments, experiment, hparams, handlers, level,
                   pooling_module, model, save_model, saver, epoch, sequence,
                   weights, saves, events, calls, error>>
    /\ UNCHANGED <<dataset, coordVars>>

\* lines 134-143: the dataset pipeline and the coordinate helper
BuildDataset ==
    /\ pc = "dataset"
    /\ dataset' = NewDataset
    /\ pc' = "pooling"
    /\ UNCHANGED <<args, nExperiments, experiment, hparams, handlers, level,
                   loaders, pooling_module, model, save_model, saver, epoch,
                   sequence, weights, saves, events, calls, error>>
    /\ UNCHANGED <<num_sequences, coordVars>>

\* lines 145-161: the pooling module
BuildPooling ==
    /\ pc = "pooling"
    /\ pooling_module' = SelectPooling(hparams.poolingModule)
    /\ pc' = "model"
    /\ UNCHANGED <<args, nExperiments, experiment, hparams, handlers, level,
                   loaders, model, save_model, saver, epoch, sequence,
                   weights, saves, events, calls, error>>
    /\ UNCHANGED <<dataVars, coordVars>>

\* lines 163-176: SocialModel(dataset, helper, ..., pooling_module, hparams)
BuildModel ==
    /\ pc = "model"
    /\ model' = pooling_module
    /\ pc' = "paths"
    /\ UNCHANGED <<args, nExperiments, experiment, hparams, handlers, level,
                   loaders, pooling_module, save_model, saver, epoch,
                   sequence, weights, saves, events, calls, error>>
    /\ UNCHANGED <<dataVars, coordVars>>

\* lines 178-188: save_model, the paths and the saver, bound only in the if
DefinePaths ==
    /\ pc = "paths"
    /\ IF hparams.modelFolder # None
       THEN save_model' = "True" /\ saver' = experiment
       ELSE UNCHANGED <<save_model, saver>>
    /\ pc' = "session"
    /\ UNCHANGED <<args, nExperiments, experiment, hparams, handlers, level,
                   loaders, pooling_module, model, epoch, sequence, weights,
                   saves, events, calls, error>>
    /\ UNCHANGED <<dataVars, coordVars>>

\* lines 192-200: the session opens and the variables are initialised
StartSession ==
    /\ pc = "session"
    /\ weights' = 0
    /\ epoch' = 0
    /\ pc' = "epochs"
    /\ UNCHANGED <<args, nExperiments, experiment, hparams, handlers, level,
                   loaders, pooling_module, model, save_model, saver,
                   sequence, saves, events, calls, error>>
    /\ UNCHANGED <<dataVars, coordVars>>

\* lines 202-208: an epoch starts and the training handle is reset
InitTrain ==
    /\ pc = "epochs"
    /\ epoch < hparams.epochs
    /\ epoch' = epoch + 1
    /\ dataset' = init_train(dataset)
    /\ calls' = [NoCalls EXCEPT !.init_train = 1]
    /\ events' = <<"init_train">>
    /\ sequence' = 0
    /\ pc' = "train"
    /\ UNCHANGED <<args, nExperiments, experiment, hparams, handlers, level,
                   loaders, pooling_module, model, save_model, saver,
                   weights, saves, error>>
    /\ UNCHANGED <<num_sequences, coordVars>>

\* lines 210-223: one training step
TrainStep ==
    /\ pc = "train"
    /\ sequence < TrainingSteps
    /\ dataset' = get_next(dataset, num_sequences)
    /\ calls' = CountNext(calls, dataset)
    /\ weights' = RunWeights(TrainingFetches, weights)
    /\ events' = Append(events, "train")
    /\ sequence' = sequence + 1
    /\ UNCHANGED <<args, nExperiments, experiment, hparams, handlers, level,
                   loaders, pooling_module, model, save_model, saver, epoch,
                   saves, pc, error>>
    /\ UNCHANGED <<num_sequences, coordVars>>

\* lines 227-230: the training loop is over, the validation handle is reset
InitVal ==
    /\ pc = "train"
    /\ sequence >= TrainingSteps
    /\ dataset' = init_val(dataset)
    /\ calls' = [calls EXCEPT !.init_val = @ + 1]
    /\ events' = Append(events, "init_val")
    /\ sequence' = 0
    /\ pc' = "validate"
    /\ UNCHANGED <<args, nExperiments, experiment, hparams, handlers, level,
                   loaders, pooling_module, model, save_model, saver, epoch,
                   weights, saves, error>>
    /\ UNCHANGED <<num_sequences, coordVars>>

\* lines 232-234: one validation step
ValStep ==
    /\ pc = "validate"
    /\ sequence < ValidationSteps
    /\ dataset' = get_next(dataset, num_sequences)
    /\ calls' = CountNext(calls, dataset)
    /\ weights' = RunWeights(ValidationFetches, weights)
    /\ events' = Append(events, "validate")
    /\ sequence' = sequence + 1
    /\ UNCHANGED <<args, nExperiments, experiment, hparams, handlers, level,
                   loaders, pooling_module, model, save_model, saver, epoch,
                   saves, pc, error>>
    /\ UNCHANGED <<num_sequences, coordVars>>

\* lines 236-240: mean_val = loss_val / val_loader.num_sequences
MeanVal ==
    /\ pc = "validate"
    /\ sequence >= ValidationSteps
    /\ IF num_sequences.val = 0
       THEN Raise("ZeroDivisionError")
       ELSE pc' = "checkpoint" /\ UNCHANGED error
    /\ UNCHANGED <<args, nExperiments, experiment, hparams, handlers, level,
                   loaders, pooling_module, model, save_model, saver, epoch,
                   sequence, weights, saves, events, calls>>
    /\ UNCHANGED <<dataVars, coordVars>>

\* lines 242-251: the checkpoint of the epoch
SaveCheckpoint ==
    /\ pc = "checkpoint"
    /\ IF save_model = "unbound"
       THEN /\ Raise("UnboundLocalError")
            /\ UNCHANGED <<saves, events>>
       ELSE /\ saves' = Append(saves, [kind |-> "checkpoint",
                                      global_step |-> epoch,
                                      saver |-> saver])
            /\ events' = Append(events, "checkpoint")
            /\ pc' = "epochs"
            /\ UNCHANGED error
    /\ UNCHANGED <<args, nExperiments, experiment, hparams, handlers, level,
                   loaders, pooling_module, model, save_model, saver, epoch,
                   sequence, weights, calls>>
    /\ UNCHANGED <<dataVars, coordVars>>

\* lines 252-254: the epochs are over, the final model is saved
SaveFinal ==
    /\ pc = "epochs"
    /\ epoch >= hparams.epochs
    /\ IF save_model = "unbound"
       THEN /\ Raise("UnboundLocalError")
            /\ UNCHANGED saves
       ELSE /\ saves' = Append(saves, [kind |-> "final",
                                      global_step |-> 0,
                                      saver |-> saver])
            /\ pc' = "reset_graph"
            /\ UNCHANGED error
    /\ UNCHANGED <<args, nExperiments, experiment, hparams, handlers, level,
                   loaders, pooling_module, model, save_model, saver, epoch,
                   sequence, weights, events, calls>>
    /\ UNCHANGED <<dataVars, coordVars>>

\* line 255: the session is closed and tf.reset_default_graph() drops the
\* graph: the dataset pipeline and the variables of the model are gone
ResetGraph ==
    /\ pc = "reset_graph"
    /\ dataset' = NewDataset
    /\ weights' = 0
    /\ calls' = NoCalls
    /\ events' = <<>>
    /\ pc' = "experiments"
    /\ UNCHANGED <<args, nExperiments, experiment, hparams, handlers, level,
                   loaders, pooling_module, model, save_model, saver, epoch,
                   sequence, saves, error>>
    /\ UNCHANGED <<num_sequences, coordVars>>

Next ==
    \/ LoadParams
    \/ MainReturns
    \/ Logger
    \/ BuildLoaders
    \/ BuildDataset
    \/ BuildPooling
    \/ BuildModel
    \/ DefinePaths
    \/ StartSession
    \/ InitTrain
    \/ TrainStep
    \/ InitVal
    \/ ValStep
    \/ MeanVal
    \/ SaveCheckpoint
    \/ SaveFinal
    \/ ResetGraph

Spec == Init /\ [][Next]_vars

\* ------------------------------------------- the dataset handles on their own
\* main at rest: nothing of the experiment loop moves
MainIdle(at) ==
    /\ args = [logLevel |-> None, logFolder |-> None]
    /\ nExperiments = 0
    /\ experiment = 0
    /\ hparams = NoHParams
    /\ handlers = <<>>
    /\ level = "WARNING"
    /\ loaders = FALSE
    /\ pooling_module = None
    /\ model = "unbound"
    /\ save_model = "unbound"
    /\ saver = 0
    /\ epoch = 0
    /\ sequence = 0
    /\ weights = 0
    /\ saves = <<>>
    /\ events = <<>>
    /\ calls = NoCalls
    /\ pc = at
    /\ error = None

HandlesInit ==
    /\ MainIdle("handles")
    /\ CoordIdle
    /\ hpc = "idle"
    /\ num_sequences \in [train : 0..MaxSeq, val : 0..MaxSeq]
    /\ dataset = NewDataset

\* sess.run(dataset.init_train), at any time
HInitTrain ==
    /\ pc = "handles"
    /\ dataset' = init_train(dataset)
    /\ UNCHANGED <<mainVars, num_sequences, coordVars>>

\* sess.run(dataset.init_val), at any time
HInitVal ==
    /\ pc = "handles"
    /\ dataset' = init_val(dataset)
    /\ UNCHANGED <<mainVars, num_sequences, coordVars>>

\* one advance of the training handle
HNextTrain ==
    /\ pc = "handles"
    /\ dataset.active = "train"
    /\ dataset' = get_next(dataset, num_sequences)
    /\ UNCHANGED <<mainVars, num_sequences, coordVars>>

\* one advance of the validation handle
HNextVal ==
    /\ pc = "handles"
    /\ dataset.active = "val"
    /\ dataset' = get_next(dataset, num_sequences)
    /\ UNCHANGED <<mainVars, num_sequences, coordVars>>

HandlesNext == HInitTrain \/ HInitVal \/ HNextTrain \/ HNextVal

SpecHandles == HandlesInit /\ [][HandlesNext]_vars

\* ------------------------------------------------------ the coordinate helper
Sentinel == <<0, 0>>

Coords == 0..MaxCoord

\* Position Tensors of one agent slot: the sentinel wherever the mask is false
Padded(p, m) ==
    /\ Len(p) = Len(m)
    /\ \A t \in 1..Len(p) : ~m[t] => p[t] = Sentinel

\* displacements taken from the first frame instead of the previous one
toRelativeToOrigin(p, m) ==
    [t \in 1..Len(p) |->
        IF t > 1 /\ m[t] /\ m[t - 1]
        THEN <<p[t][1] - p[1][1], p[t][2] - p[1][2]>>
        ELSE Sentinel]

\* relative[t] = positions[t] - positions[t-1] where both mask bits hold
toRelative(p, m) ==
    [t \in 1..Len(p) |->
        IF t > 1 /\ m[t] /\ m[t - 1]
        THEN <<p[t][1] - p[t - 1][1], p[t][2] - p[t - 1][2]>>
        ELSE Sentinel]

RECURSIVE CumulativeSum(_, _, _)
CumulativeSum(origin, rel, t) ==
    IF t <= 1
    THEN origin
    ELSE LET prev == CumulativeSum(origin, rel, t - 1)
         IN  <<prev[1] + rel[t][1], prev[2] + rel[t][2]>>

\* absolute positions: the origin plus the displacements summed up to t
toAbsolute(origin, rel) ==
    [t \in 1..Len(rel) |-> CumulativeSum(origin, rel, t)]

CoordInit ==
    /\ MainIdle("helper")
    /\ num_sequences = [train |-> 0, val |-> 0]
    /\ dataset = NewDataset
    /\ \E n \in 1..MaxFrames :
          /\ mask \in [1..n -> BOOLEAN]
          /\ positions \in [1..n -> Coords \X Coords]
    /\ Padded(positions, mask)
    /\ relative = <<>>
    /\ absolute = <<>>
    /\ hpc = "input"

ToRelative ==
    /\ hpc = "input"
    /\ relative' = toRelative(positions, mask)
    /\ hpc' = "relative"
    /\ UNCHANGED <<mainVars, dataVars, positions, mask, absolute>>

ToAbsolute ==
    /\ hpc = "relative"
    /\ absolute' = toAbsolute(positions[1], relative)
    /\ hpc' = "absolute"
    /\ UNCHANGED <<mainVars, dataVars, positions, mask, relative>>

CoordNext == ToRelative \/ ToAbsolute

SpecCoord == CoordInit /\ [][CoordNext]_vars

\* ============================================================== properties

Count(seq, kind) == Cardinality({i \in 1..Len(seq) : seq[i].kind = kind})

Windows(n) == [i \in 1..n |-> i]

IsPrefix(a, b) ==
    /\ Len(a) <= Len(b)
    /\ \A i \in 1..Len(a) : a[i] = b[i]

\* ------------------------------------------------------------------ C1
\* C1: when a split has zero sequences the run surfaces an empty-dataset
\* condition: it does not end in the ZeroDivisionError of the mean
\* validation loss, and it does not complete an epoch as if it had trained.
EmptySplit ==
    loaders /\ (num_sequences.train = 0 \/ num_sequences.val = 0)

EmptyDatasetSurfaced ==
    EmptySplit => (error # "ZeroDivisionError" /\ pc # "checkpoint")

\* ------------------------------------------------------------------ C2
\* C2: with hparams.poolingModule neither a list, "social" nor "occupancy",
\* main fails before any DataLoader is built, and no model is constructed
\* with a missing pooling module.
BadPooling ==
    experiment >= 1 /\ hparams.poolingModule = "other"

BadPoolingRejected ==
    BadPooling => (~loaders /\ model = "unbound")

\* ------------------------------------------------------------------ C3
\* C3: in every epoch the training handle is reset once and advanced
\* train_loader.num_sequences times, the validation handle is reset once and
\* advanced val_loader.num_sequences times, every window is delivered once
\* and in window order, and no advance goes past the last window.
TrainingDone ==
    /\ calls.init_train = 1
    /\ calls.next_train = num_sequences.train
    /\ dataset.train = Windows(num_sequences.train)

EpochConsumesEveryWindowOnce ==
    /\ ~dataset.raised
    /\ pc = "train" =>
          /\ calls = [NoCalls EXCEPT !.init_train = 1, !.next_train = sequence]
          /\ sequence <= num_sequences.train
          /\ dataset.train = Windows(sequence)
    /\ pc = "validate" =>
          /\ TrainingDone
          /\ calls.init_val = 1
          /\ calls.next_val = sequence
          /\ sequence <= num_sequences.val
          /\ dataset.val = Windows(sequence)
    /\ pc = "checkpoint" =>
          /\ TrainingDone
          /\ calls.init_val = 1
          /\ calls.next_val = num_sequences.val
          /\ dataset.val = Windows(num_sequences.val)

\* a second epoch ended with both handles having delivered all their windows
SecondEpochConsumed ==
    /\ pc = "checkpoint"
    /\ epoch = 2
    /\ num_sequences.train = 2
    /\ num_sequences.val = 2
    /\ dataset.train = <<1, 2>>
    /\ dataset.val = <<1, 2>>

ChainValid(t) == \A u \in 1..t : mask[u]

RoundTrip ==
    hpc = "absolute" =>
        /\ Len(absolute) = Len(positions)
        /\ \A t \in 1..Len(positions) :
              ChainValid(t) => absolute[t] = positions[t]

\* a chain valid over three frames that moves back and forth, rebuilt
RoundTripOverMovingChain ==
    /\ hpc = "absolute"
    /\ Len(positions) = 3
    /\ ChainValid(3)
    /\ positions[1] # positions[2]
    /\ positions[3] = positions[1]
    /\ absolute[3] = positions[3]

\* ------------------------------------------------------------------ C6
\* C6: within an epoch the session operations come in the order init_train,
\* the training steps, init_val, the validation steps, the checkpoint save;
\* the weights change only in training steps and not from init_val on.
EpochPattern ==
    <<"init_train">>
    \o [i \in 1..num_sequences.train |-> "train"]
    \o <<"init_val">>
    \o [i \in 1..num_sequences.val |-> "validate"]
    \o <<"checkpoint">>

InValidation == \E i \in 1..Len(events) : events[i] = "init_val"

EpochPhasesOrdered ==
    [][/\ IsPrefix(events', EpochPattern')
       /\ weights' = weights + 1 => events' = Append(events, "train")
       /\ (InValidation /\ InValidation') => weights' = weights]_vars

\* an epoch with training and validation steps ran through to its checkpoint
FullEpochRan ==
    /\ events = EpochPattern
    /\ num_sequences.train = 2
    /\ num_sequences.val = 2
    /\ epoch = 2
    /\ weights = 4

\* ------------------------------------------------------------------ C7
\* C7: with hparams.modelFolder set, an experiment of E >= 1 epochs that got
\* past logger has, when it ends, written the checkpoints with global_step
\* 1..E in this order and then the final model exactly once; a save is there
\* only once an epoch went through its validation phase to its checkpoint.
ExperimentEnded ==
    pc = "reset_graph" \/ (pc = "crashed" /\ error # "AttributeError")

CheckpointsAndFinalModel ==
    (experiment >= 1 /\ hparams.modelFolder # None /\ hparams.epochs >= 1) =>
        /\ ExperimentEnded =>
              /\ Len(saves) = hparams.epochs + 1
              /\ \A k \in 1..hparams.epochs :
                    saves[k].kind = "checkpoint" /\ saves[k].global_step = k
              /\ saves[Len(saves)].kind = "final"
        /\ saves # <<>> => "checkpoint" \in {events[i] : i \in 1..Len(events)}

\* ------------------------------------------------------------------ C8
\* C8: after a call of logger the root logger holds one stderr StreamHandler
\* and nothing of an earlier call, one FileHandler when a log folder is
\* resolved and none otherwise, and with --logFolder None only stderr.
LoggerHandlersAsDocumented ==
    pc = "loaders" =>
        /\ Count(handlers, "StreamHandler") = 1
        /\ \A i \in 1..Len(handlers) : handlers[i].by = experiment
        /\ Count(handlers, "FileHandler") =
              (IF LogFolder(hparams, args) # None THEN 1 ELSE 0)
        /\ args.logFolder = None => Count(handlers, "FileHandler") = 0

\* ------------------------------------------------------------------ C9
\* C9: logger returns normally with the level set to --logLevel upper-cased
\* when given, else hparams.logLevel upper-cased when set, else INFO.
LoggerCalled ==
    pc = "loaders" \/ (pc = "crashed" /\ error = "AttributeError")

LoggerLevelByPrecedence ==
    LoggerCalled =>
        /\ error = None
        /\ level = (IF args.logLevel # None THEN Upper(args.logLevel)
                    ELSE IF hparams.logLevel # None
                         THEN Upper(hparams.logLevel)
                    ELSE "INFO")

\* ------------------------------------------------------------------ C10
\* C10: an experiment saves only through what it bound itself, and one with
\* modelFolder unset saves nothing and raises no error for it.
SavingDependsOnOwnModelFolder ==
    experiment >= 1 =>
        /\ \A i \in 1..Len(saves) : saves[i].saver = experiment
        /\ hparams.modelFolder = None =>
              (saves = <<>> /\ error # "UnboundLocalError")

====
